---- MODULE Spec2Model ----
(***************************************************************************)
(* A model of src/src/voice_analysis/utils/common.py: the file helpers     *)
(* read_yaml, validate_yaml_content, create_directories, save_json,        *)
(* load_json, save_bin, load_bin and get_size, over a small filesystem.    *)
(*                                                                         *)
(* Python values are tagged records, text files are token sequences        *)
(* (what json.dump writes and what json.load / yaml.safe_load read),       *)
(* binary files are blobs of n bytes, and every call is one action that    *)
(* records the call, its outcome, the log entries it emitted and the       *)
(* filesystem it started from.                                             *)
(***************************************************************************)
EXTENDS Integers, Sequences, FiniteSets, TLC

VARIABLES
    fs,     \* the filesystem: path -> node
    pre,    \* the filesystem when the last call started
    arg,    \* the Python object the caller holds and passes as data
    call,   \* the last call: operation and arguments
    ret,    \* the outcome of the last call: error raised or value returned
    log     \* the log entries the last call emitted, in order

vars == <<fs, pre, arg, call, ret, log>>

-----------------------------------------------------------------------------
(* Bounds of the model                                                     *)

\* entries per generated list or dict
MaxLen == 2
\* the integers that occur as values and keys are 0..MaxInt
MaxInt == 1
\* paths per create_directories call
MaxPaths == 2
\* bytes of a binary file
MaxBytes == 2600

-----------------------------------------------------------------------------
(* Python values                                                           *)

\* str values are sequences of one-character strings
RequiredKey == <<"r", "e", "q", "u", "i", "r", "e", "d", "_", "k", "e", "y">>

PyNone == [t |-> "NoneType"]
PyBool(b) == [t |-> "bool", b |-> b]
PyInt(i) == [t |-> "int", i |-> i]
PyStr(s) == [t |-> "str", s |-> s]
PyList(xs) == [t |-> "list", xs |-> xs]
\* a dict is its items in insertion order, keys pairwise different
PyDict(kv) == [t |-> "dict", kv |-> kv]
\* a value json cannot serialise
PySet == [t |-> "set"]
\* what ConfigBox(...) builds: dicts become ConfigBox, lists BoxList
PyBox(kv) == [t |-> "ConfigBox", kv |-> kv]
PyBoxList(xs) == [t |-> "BoxList", xs |-> xs]

IsMapping(v) == v.t \in {"dict", "ConfigBox"}
IsSequence(v) == v.t \in {"list", "BoxList"}

\* position of key k in the items kv, 0 if absent
KeyIndex(kv, k) ==
    IF \E i \in 1..Len(kv) : kv[i][1] = k
    THEN CHOOSE i \in 1..Len(kv) : kv[i][1] = k
    ELSE 0

HasKey(d, k) == KeyIndex(d.kv, k) # 0
GetItem(d, k) == d.kv[KeyIndex(d.kv, k)][2]

\* d[k] = v on the items of a dict: replace in place, or append
SetItem(kv, k, v) ==
    IF KeyIndex(kv, k) # 0
    THEN [kv EXCEPT ![KeyIndex(kv, k)] = <<k, v>>]
    ELSE Append(kv, <<k, v>>)

\* Python's ==: dict subclasses compare as dicts (order-insensitive), list
\* subclasses as lists
RECURSIVE PyEq(_, _)
PyEq(v, w) ==
    CASE IsMapping(v) /\ IsMapping(w) ->
            /\ Len(v.kv) = Len(w.kv)
            /\ \A i \in 1..Len(v.kv) :
                  /\ KeyIndex(w.kv, v.kv[i][1]) # 0
                  /\ PyEq(v.kv[i][2], w.kv[KeyIndex(w.kv, v.kv[i][1])][2])
      [] IsSequence(v) /\ IsSequence(w) ->
            /\ Len(v.xs) = Len(w.xs)
            /\ \A i \in 1..Len(v.xs) : PyEq(v.xs[i], w.xs[i])
      [] OTHER -> v = w

-----------------------------------------------------------------------------
(* Errors                                                                  *)

NoError == [type |-> "none", msg |-> "none"]
Error(type, msg) == [type |-> type, msg |-> msg]

-----------------------------------------------------------------------------
(* Text: the tokens json.dump writes and json.load / yaml.safe_load read   *)

Punct(c) == [k |-> "punct", c |-> c]
\* a newline followed by n spaces
Ws(n) == [k |-> "ws", n |-> n]
StrTok(s) == [k |-> "string", s |-> s]
NumTok(ds) == [k |-> "number", ds |-> ds]
LitTok(w) == [k |-> "literal", w |-> w]
\* a YAML comment line
CommentTok == [k |-> "comment"]

DigitChar == <<"0", "1", "2", "3", "4", "5", "6", "7", "8", "9">>

\* str(n) for n >= 0
RECURSIVE DecDigits(_)
DecDigits(n) ==
    IF n < 10 THEN <<DigitChar[n + 1]>>
    ELSE Append(DecDigits(n \div 10), DigitChar[(n % 10) + 1])

DigitValue(c) == (CHOOSE d \in 1..10 : DigitChar[d] = c) - 1

\* int(ds) for a sequence of digit characters
RECURSIVE DigitsValue(_)
DigitsValue(ds) ==
    IF Len(ds) = 0 THEN 0
    ELSE 10 * DigitsValue(SubSeq(ds, 1, Len(ds) - 1)) + DigitValue(ds[Len(ds)])

Chars(w) ==
    CASE w = "null" -> <<"n", "u", "l", "l">>
      [] w = "true" -> <<"t", "r", "u", "e">>
      [] w = "false" -> <<"f", "a", "l", "s", "e">>

\* bytes a token takes in the file; the key separator is ": "
TokBytes(tk) ==
    CASE tk.k = "punct" -> IF tk.c = ":" THEN 2 ELSE 1
      [] tk.k = "ws" -> 1 + tk.n
      [] tk.k = "string" -> Len(tk.s) + 2
      [] tk.k = "number" -> Len(tk.ds)
      [] tk.k = "literal" -> Len(Chars(tk.w))
      [] tk.k = "comment" -> 1

RECURSIVE TextBytes(_)
TextBytes(toks) ==
    IF Len(toks) = 0 THEN 0 ELSE TokBytes(Head(toks)) + TextBytes(Tail(toks))

-----------------------------------------------------------------------------
(* json.dump(data, f, indent=4): the chunks reach the file one by one, so   *)
(* a value json cannot serialise leaves the chunks written before it.      *)

Indent == 4

Encoded(ok, toks) == [ok |-> ok, toks |-> toks]

\* the text of a dict key: str as is, int and bool and None coerced to str
JsonKey(k) ==
    CASE k.t = "str" -> k.s
      [] k.t = "int" -> DecDigits(k.i)
      [] k.t = "bool" -> Chars(IF k.b THEN "true" ELSE "false")
      [] k.t = "NoneType" -> Chars("null")

RECURSIVE JsonEncode(_, _), JsonEncodeItems(_, _, _, _), JsonEncodeMembers(_, _, _, _)

\* the items xs[i..] of a list at nesting level, after the chunks acc
JsonEncodeItems(xs, i, level, acc) ==
    IF i > Len(xs)
    THEN Encoded(TRUE, acc \o <<Ws(Indent * (level - 1)), Punct("]")>>)
    ELSE LET sep == IF i = 1 THEN <<>> ELSE <<Punct(","), Ws(Indent * level)>>
             e == JsonEncode(xs[i], level)
         IN  IF e.ok
             THEN JsonEncodeItems(xs, i + 1, level, acc \o sep \o e.toks)
             ELSE Encoded(FALSE, acc \o sep \o e.toks)

\* the items kv[i..] of a dict at nesting level, after the chunks acc
JsonEncodeMembers(kv, i, level, acc) ==
    IF i > Len(kv)
    THEN Encoded(TRUE, acc \o <<Ws(Indent * (level - 1)), Punct("}")>>)
    ELSE LET sep == IF i = 1 THEN <<>> ELSE <<Punct(","), Ws(Indent * level)>>
             key == <<StrTok(JsonKey(kv[i][1])), Punct(":")>>
             e == JsonEncode(kv[i][2], level)
         IN  IF e.ok
             THEN JsonEncodeMembers(kv, i + 1, level, acc \o sep \o key \o e.toks)
             ELSE Encoded(FALSE, acc \o sep \o key \o e.toks)

\* the chunks of value v nested level deep; ok is FALSE when a TypeError
\* ended the encoding
JsonEncode(v, level) ==
    CASE v.t = "NoneType" -> Encoded(TRUE, <<LitTok("null")>>)
      [] v.t = "bool" -> Encoded(TRUE, <<LitTok(IF v.b THEN "true" ELSE "false")>>)
      [] v.t = "int" -> Encoded(TRUE, <<NumTok(DecDigits(v.i))>>)
      [] v.t = "str" -> Encoded(TRUE, <<StrTok(v.s)>>)
      [] IsSequence(v) ->
            IF Len(v.xs) = 0 THEN Encoded(TRUE, <<Punct("["), Punct("]")>>)
            ELSE JsonEncodeItems(v.xs, 1, level + 1,
                                 <<Punct("["), Ws(Indent * (level + 1))>>)
      [] IsMapping(v) ->
            IF Len(v.kv) = 0 THEN Encoded(TRUE, <<Punct("{"), Punct("}")>>)
            ELSE JsonEncodeMembers(v.kv, 1, level + 1,
                                   <<Punct("{"), Ws(Indent * (level + 1))>>)
      [] OTHER -> Encoded(FALSE, <<>>)

JsonDump(v) == JsonEncode(v, 0)

-----------------------------------------------------------------------------
(* json.load and yaml.safe_load on a token sequence. YAML reads the same   *)
(* flow notation and differs in three places: an empty document is None,   *)
(* comments are skipped, and a mapping key may be any scalar.              *)

Parsed(ok, v, i) == [ok |-> ok, v |-> v, i |-> i]
ParseFail == Parsed(FALSE, PyNone, 0)

LitValue(w) ==
    CASE w = "null" -> PyNone
      [] w = "true" -> PyBool(TRUE)
      [] w = "false" -> PyBool(FALSE)

IsScalar(v) == v.t \in {"NoneType", "bool", "int", "str"}

RECURSIVE ParseValue(_, _, _), ParseElements(_, _, _, _), ParseMembers(_, _, _, _)

\* the elements of a list from ts[i], acc the elements read so far
ParseElements(ts, i, yaml, acc) ==
    LET e == ParseValue(ts, i, yaml) IN
    IF ~e.ok \/ e.i > Len(ts) THEN ParseFail
    ELSE IF ts[e.i] = Punct(",") THEN ParseElements(ts, e.i + 1, yaml, Append(acc, e.v))
    ELSE IF ts[e.i] = Punct("]") THEN Parsed(TRUE, PyList(Append(acc, e.v)), e.i + 1)
    ELSE ParseFail

\* the items of a dict from ts[i], acc the items read so far; a repeated
\* key keeps its place and takes the later value
ParseMembers(ts, i, yaml, acc) ==
    LET key == ParseValue(ts, i, yaml) IN
    IF ~key.ok \/ key.i > Len(ts) THEN ParseFail
    ELSE IF ~IsScalar(key.v) \/ (~yaml /\ key.v.t # "str") THEN ParseFail
    ELSE IF ts[key.i] # Punct(":") THEN ParseFail
    ELSE LET e == ParseValue(ts, key.i + 1, yaml) IN
         IF ~e.ok \/ e.i > Len(ts) THEN ParseFail
         ELSE IF ts[e.i] = Punct(",")
              THEN ParseMembers(ts, e.i + 1, yaml, SetItem(acc, key.v, e.v))
         ELSE IF ts[e.i] = Punct("}")
              THEN Parsed(TRUE, PyDict(SetItem(acc, key.v, e.v)), e.i + 1)
         ELSE ParseFail

\* the value that starts at ts[i] and the position after it
ParseValue(ts, i, yaml) ==
    IF i > Len(ts) THEN ParseFail
    ELSE LET tk == ts[i] IN
         CASE tk.k = "literal" -> Parsed(TRUE, LitValue(tk.w), i + 1)
           [] tk.k = "number" -> Parsed(TRUE, PyInt(DigitsValue(tk.ds)), i + 1)
           [] tk.k = "string" -> Parsed(TRUE, PyStr(tk.s), i + 1)
           [] tk = Punct("[") ->
                 IF i < Len(ts) /\ ts[i + 1] = Punct("]")
                 THEN Parsed(TRUE, PyList(<<>>), i + 2)
                 ELSE ParseElements(ts, i + 1, yaml, <<>>)
           [] tk = Punct("{") ->
                 IF i < Len(ts) /\ ts[i + 1] = Punct("}")
                 THEN Parsed(TRUE, PyDict(<<>>), i + 2)
                 ELSE ParseMembers(ts, i + 1, yaml, <<>>)
           [] OTHER -> ParseFail

\* the tokens that are neither white space nor (in YAML) comments
Significant(toks, yaml) ==
    SelectSeq(toks, LAMBDA tk : tk.k # "ws" /\ (yaml => tk.k # "comment"))

\* json.load(f): the value of the text, or ok = FALSE for a JSONDecodeError
JsonLoad(toks) ==
    LET ts == Significant(toks, FALSE)
        r == ParseValue(ts, 1, FALSE)
    IN  IF r.ok /\ r.i = Len(ts) + 1 THEN r ELSE ParseFail

\* yaml.safe_load(f): the value of the document (None when there is none),
\* or ok = FALSE for a yaml.YAMLError
YamlSafeLoad(toks) ==
    LET ts == Significant(toks, TRUE)
        r == ParseValue(ts, 1, TRUE)
    IN  IF Len(ts) = 0 THEN Parsed(TRUE, PyNone, 1)
        ELSE IF r.ok /\ r.i = Len(ts) + 1 THEN r ELSE ParseFail

-----------------------------------------------------------------------------
(* The filesystem                                                          *)

Names == {"a", "b"}

\* a path is the sequence of its components below the working directory
Paths == {<<n>> : n \in Names} \cup {p \in Names \X Names : p[1] # p[2]}

Parent(p) == SubSeq(p, 1, Len(p) - 1)

NoNode == [kind |-> "none"]
DirNode == [kind |-> "dir"]
FileNode(data) == [kind |-> "file", data |-> data]

\* a text file holds tokens; a binary file written by joblib holds the
\* pickle of an object in n bytes; any other binary file is n bytes
Text(toks) == [fmt |-> "text", toks |-> toks]
Pickle(obj, n) == [fmt |-> "pickle", obj |-> obj, n |-> n]
Blob(n) == [fmt |-> "blob", n |-> n]

EmptyFs == [p \in Paths |-> NoNode]

\* the working directory <<>> is a directory
Kind(f, p) == IF p = <<>> THEN "dir" ELSE f[p].kind

\* a node exists only inside a directory
WellFormed(f) == \A p \in Paths : f[p].kind # "none" => Kind(f, Parent(p)) = "dir"

ENOENT == Error("FileNotFoundError", "No such file or directory")
ENOTDIR == Error("NotADirectoryError", "Not a directory")
EISDIR == Error("IsADirectoryError", "Is a directory")
EEXIST == Error("FileExistsError", "File exists")

\* path resolution of the directories above p: the error of the first
\* component that is not a directory
RECURSIVE LookupError(_, _)
LookupError(f, p) ==
    IF Len(p) = 0 THEN NoError
    ELSE LET up == LookupError(f, Parent(p)) IN
         IF up # NoError THEN up
         ELSE CASE Kind(f, Parent(p)) = "dir" -> NoError
                [] Kind(f, Parent(p)) = "file" -> ENOTDIR
                [] OTHER -> ENOENT

\* os.stat(p)
StatError(f, p) ==
    IF LookupError(f, p) # NoError THEN LookupError(f, p)
    ELSE IF Kind(f, p) = "none" THEN ENOENT ELSE NoError

\* os.path.exists(p), os.path.isdir(p)
Exists(f, p) == StatError(f, p) = NoError
IsDir(f, p) == Exists(f, p) /\ Kind(f, p) = "dir"

\* open(p, "r") and joblib's open(p, "rb")
OpenReadError(f, p) ==
    IF StatError(f, p) # NoError THEN StatError(f, p)
    ELSE IF Kind(f, p) = "dir" THEN EISDIR ELSE NoError

Effect(f, err) == [fs |-> f, err |-> err]

\* os.mkdir(p)
Mkdir(f, p) ==
    IF p = <<>> THEN Effect(f, EEXIST)
    ELSE IF LookupError(f, p) # NoError THEN Effect(f, LookupError(f, p))
    ELSE IF Kind(f, p) # "none" THEN Effect(f, EEXIST)
    ELSE Effect([f EXCEPT ![p] = DirNode], NoError)

\* os.makedirs(p) without exist_ok: an existing directory is an error
RECURSIVE MakedirsNoExistOk(_, _)
MakedirsNoExistOk(f, p) ==
    LET head == IF Len(p) > 1 /\ ~Exists(f, Parent(p))
                THEN MakedirsNoExistOk(f, Parent(p))
                ELSE Effect(f, NoError)
    IN  IF head.err \notin {NoError, EEXIST} THEN head
        ELSE Mkdir(head.fs, p)

\* os.makedirs(p, exist_ok=True): the missing parents first, then p; an
\* error of mkdir is dropped only when p is a directory
RECURSIVE Makedirs(_, _)
Makedirs(f, p) ==
    LET head == IF Len(p) > 1 /\ ~Exists(f, Parent(p))
                THEN Makedirs(f, Parent(p))
                ELSE Effect(f, NoError)
        \* makedirs passes over a FileExistsError of the parents
        made == Mkdir(head.fs, p)
    IN  IF head.err \notin {NoError, EEXIST} THEN head
        ELSE IF made.err # NoError /\ ~IsDir(made.fs, p) THEN made
        ELSE Effect(made.fs, NoError)

\* Path.mkdir(parents=True, exist_ok=True)
RECURSIVE PathMkdir(_, _)
PathMkdir(f, p) ==
    LET first == Mkdir(f, p) IN
    IF first.err = NoError THEN first
    ELSE IF first.err = ENOENT /\ p # <<>>
         THEN LET up == PathMkdir(f, Parent(p))
                  again == Mkdir(up.fs, p)
              IN  IF up.err # NoError THEN up
                  ELSE IF again.err # NoError /\ ~IsDir(again.fs, p) THEN again
                  ELSE Effect(again.fs, NoError)
    ELSE IF IsDir(f, p) THEN Effect(f, NoError)
    ELSE first

\* open(p, "w"): creates the file or truncates it
OpenWrite(f, p) ==
    IF LookupError(f, p) # NoError THEN Effect(f, LookupError(f, p))
    ELSE IF Kind(f, p) = "dir" THEN Effect(f, EISDIR)
    ELSE Effect([f EXCEPT ![p] = FileNode(Text(<<>>))], NoError)

-----------------------------------------------------------------------------
(* What a call produces                                                    *)

\* the function raised and returns nothing
NoValue == [t |-> "no value"]

LogEntry(level, msg, p) == [level |-> level, msg |-> msg, path |-> p]

\* fs: the filesystem the call leaves; err: the error the caller receives;
\* detected: the error first raised inside the call; value: the value
\* returned; log: the entries emitted
Outcome(f, err, detected, value, entries) ==
    [fs |-> f, err |-> err, detected |-> detected, value |-> value, log |-> entries]

Returns(f, value, entries) == Outcome(f, NoError, NoError, value, entries)
Raises(f, err, entries) == Outcome(f, err, err, NoValue, entries)

\* the text a file yields when read in text mode; bytes that are not text
\* raise UnicodeDecodeError
ReadText(data) ==
    CASE data.fmt = "text" -> [ok |-> TRUE, toks |-> data.toks]
      [] data.fmt = "blob" /\ data.n = 0 -> [ok |-> TRUE, toks |-> <<>>]
      [] OTHER -> [ok |-> FALSE, toks |-> <<>>]

DecodeError == Error("UnicodeDecodeError", "invalid start byte")

-----------------------------------------------------------------------------
(* ConfigBox(content), from python-box                                     *)

RECURSIVE ToBox(_)
\* the conversion Box applies to every value it stores
ToBox(v) ==
    CASE IsMapping(v) ->
            PyBox([i \in 1..Len(v.kv) |-> <<v.kv[i][1], ToBox(v.kv[i][2])>>])
      [] IsSequence(v) -> PyBoxList([i \in 1..Len(v.xs) |-> ToBox(v.xs[i])])
      [] OTHER -> v

Hashable(k) == k.t \in {"NoneType", "bool", "int", "str"}

\* `for k, v in iterable`: one element unpacked into a key and a value
Unpack(e) ==
    CASE IsSequence(e) /\ Len(e.xs) = 2 ->
            [err |-> NoError, k |-> e.xs[1], v |-> e.xs[2]]
      [] IsMapping(e) /\ Len(e.kv) = 2 ->
            [err |-> NoError, k |-> e.kv[1][1], v |-> e.kv[2][1]]
      [] e.t = "str" /\ Len(e.s) = 2 ->
            [err |-> NoError, k |-> PyStr(<<e.s[1]>>), v |-> PyStr(<<e.s[2]>>)]
      [] IsSequence(e) \/ IsMapping(e) \/ e.t = "str" ->
            [err |-> Error("ValueError", "wrong number of values to unpack"),
             k |-> PyNone, v |-> PyNone]
      [] OTHER ->
            [err |-> Error("TypeError", "cannot unpack non-iterable object"),
             k |-> PyNone, v |-> PyNone]

RECURSIVE BoxFromPairs(_, _, _)
\* Box(iterable): the elements xs[i..] stored as items after the items acc
BoxFromPairs(xs, i, acc) ==
    IF i > Len(xs) THEN [err |-> NoError, value |-> PyBox(acc)]
    ELSE LET u == Unpack(xs[i]) IN
         IF u.err # NoError THEN [err |-> u.err, value |-> NoValue]
         ELSE IF ~Hashable(u.k)
              THEN [err |-> Error("TypeError", "unhashable type"), value |-> NoValue]
         ELSE BoxFromPairs(xs, i + 1, SetItem(acc, u.k, ToBox(u.v)))

ConfigBox(content) ==
    CASE content.t = "str" ->
            [err |-> Error("BoxValueError", "Cannot extrapolate Box from string"),
             value |-> NoValue]
      [] IsMapping(content) -> [err |-> NoError, value |-> ToBox(content)]
      [] IsSequence(content) -> BoxFromPairs(content.xs, 1, <<>>)
      [] OTHER ->
            [err |-> Error("BoxValueError", "First argument must be mapping or iterable"),
             value |-> NoValue]

-----------------------------------------------------------------------------
(* read_yaml and validate_yaml_content                                     *)

\* s contains sub as a contiguous run
IsSubstring(sub, s) ==
    \E i \in 1..(Len(s) + 1) :
        i + Len(sub) - 1 <= Len(s) /\ SubSeq(s, i, i + Len(sub) - 1) = sub

\* Python's `key in content`: err is set when content is not a container
Contains(key, content) ==
    CASE IsMapping(content) -> [err |-> NoError, found |-> HasKey(content, PyStr(key))]
      [] IsSequence(content) ->
            [err |-> NoError,
             found |-> \E i \in 1..Len(content.xs) : PyEq(content.xs[i], PyStr(key))]
      [] content.t = "str" -> [err |-> NoError, found |-> IsSubstring(key, content.s)]
      [] OTHER ->
            [err |-> Error("TypeError", "argument is not iterable"), found |-> FALSE]

MissingKey == Error("ValueError", "YAML content is missing 'required_key'.")

\* validate_yaml_content with the test inverted: `in` for `not in`
validate_yaml_content_inverted(content) ==
    LET m == Contains(RequiredKey, content) IN
    IF m.err # NoError THEN m.err
    ELSE IF m.found THEN MissingKey
    ELSE NoError

\* the error validate_yaml_content raises on content, NoError if none
validate_yaml_content(content) ==
    LET m == Contains(RequiredKey, content) IN
    IF m.err # NoError THEN m.err
    ELSE IF ~m.found THEN MissingKey
    ELSE NoError

EmptyFile == Error("ValueError", "YAML file is empty.")
InvalidStructure == Error("ValueError", "YAML file has an invalid structure.")
YamlNotFound == Error("FileNotFoundError", "YAML file not found.")
YamlSyntax == Error("YAMLError", "syntax error")

\* `not content` for `content is None`: every falsy value counts as empty
IsEmptyFalsy(content) ==
    \/ content = PyNone
    \/ content = PyBool(FALSE)
    \/ content = PyInt(0)
    \/ content = PyStr(<<>>)
    \/ IsMapping(content) /\ Len(content.kv) = 0
    \/ IsSequence(content) /\ Len(content.xs) = 0

\* `content is None`
IsEmpty(content) == content = PyNone

LoadedEntry(p) == LogEntry("INFO", "YAML file loaded successfully", p)

\* the body of the try block of read_yaml
read_yaml_try(f, p) ==
    IF OpenReadError(f, p) # NoError THEN Raises(f, OpenReadError(f, p), <<>>)
    ELSE LET text == ReadText(f[p].data)
             doc == YamlSafeLoad(text.toks)
             content == doc.v
             loaded == <<LoadedEntry(p)>>
             box == ConfigBox(content)
         IN  IF ~text.ok THEN Raises(f, DecodeError, <<>>)
             ELSE IF ~doc.ok THEN Raises(f, YamlSyntax, <<>>)
             ELSE IF IsEmpty(content) THEN Raises(f, EmptyFile, loaded)
             ELSE IF validate_yaml_content(content) # NoError
                  THEN Raises(f, validate_yaml_content(content), loaded)
             ELSE IF box.err # NoError THEN Raises(f, box.err, loaded)
             ELSE Returns(f, box.value, loaded)

\* read_yaml whose last except clause raises a new ValueError instead of e
read_yaml_wrapping(f, p) ==
    LET body == read_yaml_try(f, p)
        e == body.err
    IN  CASE e = NoError -> body
          [] e.type = "BoxValueError" ->
                Outcome(f, InvalidStructure, e, NoValue, body.log)
          [] e.type = "FileNotFoundError" ->
                Outcome(f, YamlNotFound, e, NoValue, body.log)
          [] e.type = "YAMLError" ->
                Outcome(f, e, e, NoValue,
                        Append(body.log, LogEntry("ERROR", "YAML syntax error in file", p)))
          [] OTHER ->
                Outcome(f, Error("ValueError", "Error loading YAML file"), e, NoValue,
                        Append(body.log, LogEntry("ERROR", "Error loading YAML file", p)))

\* read_yaml(path_to_yaml): the try block, then the except clauses in order
read_yaml(f, p) ==
    LET body == read_yaml_try(f, p)
        e == body.err
    IN  CASE e = NoError -> body
          [] e.type = "BoxValueError" ->
                Outcome(f, InvalidStructure, e, NoValue, body.log)
          [] e.type = "FileNotFoundError" ->
                Outcome(f, YamlNotFound, e, NoValue, body.log)
          [] e.type = "YAMLError" ->
                Outcome(f, e, e, NoValue,
                        Append(body.log, LogEntry("ERROR", "YAML syntax error in file", p)))
          [] OTHER ->
                Outcome(f, e, e, NoValue,
                        Append(body.log, LogEntry("ERROR", "Error loading YAML file", p)))

-----------------------------------------------------------------------------
(* create_directories                                                      *)

RECURSIVE create_directories_from(_, _, _, _, _)
\* the loop of create_directories from the i-th path on, entries logged so far
create_directories_from(f, ps, verbose, i, entries) ==
    IF i > Len(ps) THEN Returns(f, PyNone, entries)
    ELSE LET made == Makedirs(f, ps[i]) IN
         IF made.err # NoError THEN Raises(made.fs, made.err, entries)
         ELSE create_directories_from(
                  made.fs, ps, verbose, i + 1,
                  IF verbose
                  THEN Append(entries, LogEntry("INFO", "Created directory at", ps[i]))
                  ELSE entries)

create_directories(f, ps, verbose) == create_directories_from(f, ps, verbose, 1, <<>>)

-----------------------------------------------------------------------------
(* save_json and load_json                                                 *)

\* what @ensure_annotations raises for an argument of the wrong type
EnsureError == Error("EnsureError", "Argument of wrong type")
NotSerializable == Error("TypeError", "Object is not JSON serializable")

\* open(p, "a"): creates the file or keeps what it holds
OpenAppend(f, p) ==
    IF LookupError(f, p) # NoError THEN Effect(f, LookupError(f, p))
    ELSE IF Kind(f, p) = "dir" THEN Effect(f, EISDIR)
    ELSE IF Kind(f, p) = "file" THEN Effect(f, NoError)
    ELSE Effect([f EXCEPT ![p] = FileNode(Text(<<>>))], NoError)

\* save_json that opens path with mode "a" instead of "w"
save_json_append(f, p, data) ==
    LET dirs == PathMkdir(f, Parent(p))
        opened == OpenAppend(dirs.fs, p)
        dumped == JsonDump(data)
        old == ReadText(opened.fs[p].data).toks
        written == [opened.fs EXCEPT ![p] = FileNode(Text(old \o dumped.toks))]
    IN  IF data.t # "dict" THEN Raises(f, EnsureError, <<>>)
        ELSE IF dirs.err # NoError THEN Raises(dirs.fs, dirs.err, <<>>)
        ELSE IF opened.err # NoError THEN Raises(opened.fs, opened.err, <<>>)
        ELSE IF ~dumped.ok THEN Raises(written, NotSerializable, <<>>)
        ELSE Returns(written, PyNone, <<LogEntry("INFO", "JSON file saved at", p)>>)

\* save_json(path, data)
save_json(f, p, data) ==
    LET dirs == PathMkdir(f, Parent(p))
        opened == OpenWrite(dirs.fs, p)
        dumped == JsonDump(data)
        written == [opened.fs EXCEPT ![p] = FileNode(Text(dumped.toks))]
    IN  IF data.t # "dict" THEN Raises(f, EnsureError, <<>>)
        ELSE IF dirs.err # NoError THEN Raises(dirs.fs, dirs.err, <<>>)
        ELSE IF opened.err # NoError THEN Raises(opened.fs, opened.err, <<>>)
        ELSE IF ~dumped.ok THEN Raises(written, NotSerializable, <<>>)
        ELSE Returns(written, PyNone, <<LogEntry("INFO", "JSON file saved at", p)>>)

JsonSyntax == Error("JSONDecodeError", "syntax error")

\* load_json(path)
load_json(f, p) ==
    IF OpenReadError(f, p) # NoError THEN Raises(f, OpenReadError(f, p), <<>>)
    ELSE LET text == ReadText(f[p].data)
             doc == JsonLoad(text.toks)
             loaded == <<LogEntry("INFO", "JSON file loaded successfully from", p)>>
             box == ConfigBox(doc.v)
         IN  IF ~text.ok THEN Raises(f, DecodeError, <<>>)
             ELSE IF ~doc.ok THEN Raises(f, JsonSyntax, <<>>)
             ELSE IF box.err # NoError THEN Raises(f, box.err, loaded)
             ELSE Returns(f, box.value, loaded)

-----------------------------------------------------------------------------
(* save_bin and load_bin                                                   *)

\* save_bin(data, path): joblib.dump opens the file and writes the pickle,
\* which takes n bytes
save_bin(f, data, p, n) ==
    LET dirs == PathMkdir(f, Parent(p))
        opened == OpenWrite(dirs.fs, p)
        written == [opened.fs EXCEPT ![p] = FileNode(Pickle(data, n))]
    IN  IF dirs.err # NoError THEN Raises(dirs.fs, dirs.err, <<>>)
        ELSE IF opened.err # NoError THEN Raises(opened.fs, opened.err, <<>>)
        ELSE Returns(written, PyNone, <<LogEntry("INFO", "Binary file saved at", p)>>)

Unpickling == Error("UnpicklingError", "not a pickle")

\* load_bin(path): joblib.load opens the file and reads the pickle
load_bin(f, p) ==
    IF OpenReadError(f, p) # NoError THEN Raises(f, OpenReadError(f, p), <<>>)
    ELSE IF f[p].data.fmt # "pickle" THEN Raises(f, Unpickling, <<>>)
    ELSE Returns(f, f[p].data.obj, <<LogEntry("INFO", "Binary file loaded from", p)>>)

-----------------------------------------------------------------------------
(* get_size                                                                *)

\* what the filesystem reports as the size of a directory
DirBytes == 4096

\* st_size of a file
FileBytes(data) ==
    CASE data.fmt = "text" -> TextBytes(data.toks)
      [] data.fmt = "blob" -> data.n
      [] data.fmt = "pickle" -> data.n

\* os.path.getsize(path)
getsize(f, p) ==
    IF StatError(f, p) # NoError THEN [err |-> StatError(f, p), n |-> 0]
    ELSE IF Kind(f, p) = "dir" THEN [err |-> NoError, n |-> DirBytes]
    ELSE [err |-> NoError, n |-> FileBytes(f[p].data)]

\* int(n / d) for round(n / d): the quotient cut off
RoundDown(n, d) == n \div d

\* Python's round(n / d) for integers n >= 0, d > 0 with d even: to the
\* nearest integer, a tie to the even one
Round(n, d) ==
    LET q == n \div d
        r == n % d
    IN  IF 2 * r < d THEN q
        ELSE IF 2 * r > d THEN q + 1
        ELSE IF q % 2 = 0 THEN q ELSE q + 1

BytesPerKB == 1024

\* f"~ {size_in_kb} KB"
FormatKB(k) == PyStr(<<"~", " ">> \o DecDigits(k) \o <<" ", "K", "B">>)

\* get_size that reports a missing path as an empty file
get_size_or_zero(f, p) ==
    LET size == getsize(f, p) IN
    IF size.err # NoError THEN Returns(f, FormatKB(0), <<>>)
    ELSE Returns(f, FormatKB(Round(size.n, BytesPerKB)), <<>>)

\* get_size(path)
get_size(f, p) ==
    LET size == getsize(f, p) IN
    IF size.err # NoError THEN Raises(f, size.err, <<>>)
    ELSE Returns(f, FormatKB(Round(size.n, BytesPerKB)), <<>>)

-----------------------------------------------------------------------------
(* The values, texts and filesystems the model draws its inputs from       *)

SeqsUpTo(S, n) == UNION {[1..k -> S] : k \in 0..n}

Ints == 0..MaxInt

Scalars == {PyNone} \cup {PyInt(i) : i \in Ints}
               \cup {PyStr(<<"x", "y">>), PyStr(RequiredKey)}

Keys == {PyStr(RequiredKey), PyStr(<<"x", "y">>), PyInt(MaxInt)}

Lists(S, n) == {PyList(xs) : xs \in SeqsUpTo(S, n)}

Dicts(S, n) ==
    {PyDict(kv) : kv \in {s \in SeqsUpTo(Keys \X S, n) :
                             \A i, j \in 1..Len(s) : s[i][1] = s[j][1] => i = j}}

\* containers of scalars, and containers of one container
Flat(S) == Lists(S, MaxLen) \cup Dicts(S, MaxLen)
Inner(S) == Lists(S, 1) \cup Dicts(S, 1)
NestedDicts(S) == {PyDict(<< <<k, v>> >>) : k \in Keys, v \in Inner(S)}
NestedLists(S) == {PyList(<<v>>) : v \in Inner(S)}

\* the documents a YAML file may hold
YamlValues ==
    Scalars \cup {PyStr(<<"_">> \o RequiredKey)} \cup Flat(Scalars)
        \cup NestedDicts(Scalars) \cup NestedLists(Scalars)

\* their texts, the texts cut short by one token, the texts after a comment
YamlTexts ==
    LET whole == {JsonDump(v).toks : v \in YamlValues}
        short == {JsonDump(v).toks : v \in Scalars \cup Inner(Scalars)}
    IN  whole \cup {<<>>}
              \cup {SubSeq(t, 1, Len(t) - 1) : t \in short}
              \cup {<<CommentTok>> \o t : t \in short \cup {<<>>}}

\* the values inside the objects a caller passes as data; json cannot
\* serialise the last one
DataScalars == {PyNone, PyBool(TRUE), PyInt(MaxInt), PyStr(<<"x", "y">>), PySet}

\* the objects a caller passes as data: dicts, and one list
DataValues ==
    Dicts(DataScalars, MaxLen) \cup NestedDicts(DataScalars) \cup {PyList(<<PyInt(0)>>)}

\* a few binary lengths a pickle may take
PickleSizes == {MaxBytes \div 2, MaxBytes}

\* the filesystem with node at p and the directories above p
Place(p, node) ==
    [q \in Paths |-> IF q = p THEN node
                     ELSE IF q = Parent(p) THEN DirNode ELSE NoNode]

\* the empty filesystem, and those with one directory or one file
InitialFilesystems(contents) ==
    {EmptyFs} \cup {Place(p, DirNode) : p \in Paths}
              \cup {Place(p, FileNode(c)) : p \in Paths, c \in contents}

-----------------------------------------------------------------------------
(* The calls                                                               *)

Call(op, p, ps, verbose) == [op |-> op, path |-> p, paths |-> ps, verbose |-> verbose]
NoCall == Call("none", <<>>, <<>>, FALSE)
Result(out) == [err |-> out.err, detected |-> out.detected, value |-> out.value]

\* one call: it starts in fs and leaves what out says
Do(c, out) ==
    /\ call' = c
    /\ pre' = fs
    /\ fs' = out.fs
    /\ ret' = Result(out)
    /\ log' = out.log
    /\ UNCHANGED arg

ReadYaml(p) == Do(Call("read_yaml", p, <<>>, FALSE), read_yaml(fs, p))

CreateDirectories(ps, verbose) ==
    Do(Call("create_directories", <<>>, ps, verbose), create_directories(fs, ps, verbose))

SaveJson(p) == Do(Call("save_json", p, <<>>, FALSE), save_json(fs, p, arg))

LoadJson(p) == Do(Call("load_json", p, <<>>, FALSE), load_json(fs, p))

SaveBin(p, n) == Do(Call("save_bin", p, <<>>, FALSE), save_bin(fs, arg, p, n))

LoadBin(p) == Do(Call("load_bin", p, <<>>, FALSE), load_bin(fs, p))

GetSize(p) == Do(Call("get_size", p, <<>>, FALSE), get_size(fs, p))

Start(filesystems, datas) ==
    /\ fs \in filesystems
    /\ pre = fs
    /\ arg \in datas
    /\ call = NoCall
    /\ ret = Result(Returns(fs, NoValue, <<>>))
    /\ log = <<>>

-----------------------------------------------------------------------------
(* Specifications                                                          *)

\* read_yaml on filesystems that hold one YAML file, one binary file or
\* one directory
InitYaml ==
    Start(InitialFilesystems({Text(t) : t \in YamlTexts} \cup {Blob(0), Blob(MaxBytes)}),
          {PyNone})
NextYaml == \E p \in Paths : ReadYaml(p)
SpecYaml == InitYaml /\ [][NextYaml]_vars

\* save_json and load_json of the caller's data
InitJson ==
    Start(InitialFilesystems({Text(JsonDump(PyDict(<<>>)).toks)}), DataValues)
NextJson == \E p \in Paths : SaveJson(p) \/ LoadJson(p)
SpecJson == InitJson /\ [][NextJson]_vars

\* create_directories
InitDirs == Start(InitialFilesystems({Text(<<>>)}), {PyNone})
NextDirs ==
    \E ps \in SeqsUpTo(Paths, MaxPaths), verbose \in BOOLEAN :
        CreateDirectories(ps, verbose)
SpecDirs == InitDirs /\ [][NextDirs]_vars

\* get_size on files of every length
InitSize ==
    Start(InitialFilesystems({Blob(n) : n \in 0..MaxBytes}
                                 \cup {Text(JsonDump(v).toks) : v \in Inner(Scalars)}),
          {PyNone})
NextSize == \E p \in Paths : GetSize(p)
SpecSize == InitSize /\ [][NextSize]_vars

\* every function, on a few files and a few objects
Init ==
    Start(InitialFilesystems({Text(<<>>), Blob(MaxBytes)}),
          {PyDict(<< <<PyStr(RequiredKey), PyInt(0)>> >>),
           PyDict(<< <<PyStr(RequiredKey), PySet>> >>)})
Next ==
    \/ \E p \in Paths : ReadYaml(p)
    \/ \E ps \in SeqsUpTo(Paths, 1), verbose \in BOOLEAN : CreateDirectories(ps, verbose)
    \/ \E p \in Paths : SaveJson(p)
    \/ \E p \in Paths : LoadJson(p)
    \/ \E p \in Paths, n \in PickleSizes : SaveBin(p, n)
    \/ \E p \in Paths : LoadBin(p)
    \/ \E p \in Paths : GetSize(p)
Spec == Init /\ [][Next]_vars

TypeOK ==
    /\ WellFormed(fs)
    /\ WellFormed(pre)
    /\ call.op \in {"none", "read_yaml", "create_directories", "save_json",
                    "load_json", "save_bin", "load_bin", "get_size"}

-----------------------------------------------------------------------------
(* The error kinds of the specification                                    *)

NotFoundError(e) == e.type = "FileNotFoundError"
EmptyDocumentError(e) == e.type = "ValueError" /\ e.msg = "YAML file is empty."
ValidationError(e) ==
    e.type = "ValueError" /\ e.msg = "YAML content is missing 'required_key'."

Marker == PyStr(RequiredKey)

\* the last call was read_yaml on an existing, readable, well-formed file
ParsedYamlCall ==
    /\ call.op = "read_yaml"
    /\ OpenReadError(pre, call.path) = NoError
    /\ ReadText(pre[call.path].data).ok
    /\ YamlSafeLoad(ReadText(pre[call.path].data).toks).ok

\* the parsed document of that file
Document == YamlSafeLoad(ReadText(pre[call.path].data).toks).v

HasMarker(v) == v.t = "dict" /\ HasKey(v, Marker)

\* C1: a YAML document that parses to a mapping with the top-level key
\* 'required_key' is returned by read_yaml without error, as a mapping that
\* has the key with a value equal to the parsed one.
C1_MarkerDocumentLoads ==
    (ParsedYamlCall /\ HasMarker(Document)) =>
        /\ ret.err = NoError
        /\ IsMapping(ret.value)
        /\ HasKey(ret.value, Marker)
        /\ PyEq(GetItem(ret.value, Marker), GetItem(Document, Marker))

\* a document with the key and a nested mapping under it was loaded
C1_Witness ==
    /\ ParsedYamlCall
    /\ HasMarker(Document)
    /\ GetItem(Document, Marker).t = "dict"
    /\ Len(GetItem(Document, Marker).kv) > 0
    /\ ret.err = NoError

\* C2 as stated: a file whose parsed result is empty, no document or an
\* empty mapping, makes read_yaml fail with EmptyDocumentError and return
\* nothing.
C2_EmptyResultIsEmptyDocumentError ==
    (ParsedYamlCall /\ Document \in {PyNone, PyDict(<<>>)}) =>
        EmptyDocumentError(ret.err) /\ ret.value = NoValue

\* C2 amended: a file with no document (the parsed result is None) makes
\* read_yaml fail with EmptyDocumentError and return nothing; a document
\* that is an empty mapping fails with ValidationError instead.
C2_NoDocumentIsEmptyDocumentError ==
    /\ (ParsedYamlCall /\ Document = PyNone) =>
           EmptyDocumentError(ret.err) /\ ret.value = NoValue
    /\ (ParsedYamlCall /\ Document = PyDict(<<>>)) =>
           ValidationError(ret.err) /\ ret.value = NoValue

\* a file that holds only a comment was read
C2_Witness ==
    /\ ParsedYamlCall
    /\ pre[call.path].data = Text(<<CommentTok>>)
    /\ EmptyDocumentError(ret.err)

\* a parsed result that is neither None nor an empty container or string
NonEmpty(v) ==
    /\ v # PyNone
    /\ IsMapping(v) => Len(v.kv) > 0
    /\ IsSequence(v) => Len(v.xs) > 0
    /\ v.t = "str" => Len(v.s) > 0

\* C3: a well-formed, non-empty document without the top-level key
\* 'required_key', whatever its shape, makes read_yaml fail with
\* ValidationError and return nothing.
C3_MissingMarkerIsValidationError ==
    (ParsedYamlCall /\ NonEmpty(Document) /\ ~HasMarker(Document)) =>
        ValidationError(ret.err) /\ ret.value = NoValue

RECURSIVE JsonRepresentable(_)
\* v is a value of JSON: null, a boolean, a number, a string, an array of
\* values, or an object with string keys and values
JsonRepresentable(v) ==
    CASE v.t \in {"NoneType", "bool", "int", "str"} -> TRUE
      [] v.t = "list" -> \A i \in 1..Len(v.xs) : JsonRepresentable(v.xs[i])
      [] v.t = "dict" ->
            \A i \in 1..Len(v.kv) :
                v.kv[i][1].t = "str" /\ JsonRepresentable(v.kv[i][2])
      [] OTHER -> FALSE

\* C4: after save_json(p, d) has returned for a JSON-representable mapping
\* d, load_json(p) as the next call returns a mapping equal to d.
C4_JsonRoundTrip ==
    [][(/\ call.op = "save_json"
        /\ ret.err = NoError
        /\ JsonRepresentable(arg)
        /\ call'.op = "load_json"
        /\ call'.path = call.path)
       => (/\ ret'.err = NoError
           /\ IsMapping(ret'.value)
           /\ PyEq(ret'.value, arg))]_vars

\* load_json returned from a file that holds the dump of a nested mapping
C4_Witness ==
    /\ call.op = "load_json"
    /\ ret.err = NoError
    /\ arg.t = "dict"
    /\ JsonRepresentable(arg)
    /\ \E i \in 1..Len(arg.kv) : arg.kv[i][2].t = "dict" /\ Len(arg.kv[i][2].kv) > 0
    /\ pre[call.path] = FileNode(Text(JsonDump(arg).toks))
    /\ PyEq(ret.value, arg)

\* the paths of the last call, as a set
Listed == {call.paths[i] : i \in 1..Len(call.paths)}

\* the same call once more, from the filesystem the last call left
Again == create_directories(fs, call.paths, call.verbose)

\* every listed path is a directory, and so is everything above it
AllCreated == \A p \in Listed : \A i \in 1..Len(p) : Kind(fs, SubSeq(p, 1, i)) = "dir"

\* C5 as stated: whatever the filesystem, create_directories raises no
\* error and creates every listed directory with its parents, and a
\* second call with the same paths raises no error and changes nothing.
C5_IdempotentOnEveryFilesystem ==
    call.op = "create_directories" =>
        /\ ret.err = NoError
        /\ AllCreated
        /\ Again.err = NoError
        /\ Again.fs = fs

\* a listed path, or a path above one, is a file
FileInTheWay(f, ps) ==
    \E j \in 1..Len(ps) : \E i \in 1..Len(ps[j]) : Kind(f, SubSeq(ps[j], 1, i)) = "file"

\* C5 amended: when no listed path and no path above one is a file,
\* create_directories raises no error and creates every listed directory
\* with its parents, and a second call with the same paths raises no error
\* and changes nothing.
C5_IdempotentOnDirectories ==
    (call.op = "create_directories" /\ ~FileInTheWay(pre, call.paths)) =>
        /\ ret.err = NoError
        /\ AllCreated
        /\ Again.err = NoError
        /\ Again.fs = fs

\* a call with two paths created a directory and its missing parent
C5_Witness ==
    /\ call.op = "create_directories"
    /\ ~FileInTheWay(pre, call.paths)
    /\ Len(call.paths) = 2
    /\ \E p \in Listed : Len(p) = 2 /\ Kind(pre, Parent(p)) = "none"
    /\ \E p \in Listed : Kind(pre, p) = "dir"
    /\ ret.err = NoError

\* the file the last call named, when it is one
IsFile(f, p) == StatError(f, p) = NoError /\ Kind(f, p) = "file"

Distance(x, y) == IF x >= y THEN x - y ELSE y - x

\* C6: get_size of a file of n bytes returns "~ k KB" with k written in
\* decimal and within half a kilobyte of n; 2048 bytes give "~ 2 KB".
C6_SizeInKB ==
    (call.op = "get_size" /\ IsFile(pre, call.path)) =>
        LET n == FileBytes(pre[call.path].data)
            s == ret.value.s
            ds == SubSeq(s, 3, Len(s) - 3)
            k == DigitsValue(ds)
        IN  /\ ret.err = NoError
            /\ ret.value.t = "str"
            /\ Len(s) >= 6
            /\ SubSeq(s, 1, 2) = <<"~", " ">>
            /\ SubSeq(s, Len(s) - 2, Len(s)) = <<" ", "K", "B">>
            /\ \A i \in 1..Len(ds) : \E d \in 1..10 : DigitChar[d] = ds[i]
            /\ (Len(ds) > 1 => ds[1] # "0")
            /\ Distance(BytesPerKB * k, n) * 2 <= BytesPerKB
            /\ (n = 2048 => s = <<"~", " ", "2", " ", "K", "B">>)

\* get_size answered for a file of 2048 bytes
C6_Witness ==
    /\ call.op = "get_size"
    /\ IsFile(pre, call.path)
    /\ FileBytes(pre[call.path].data) = 2048
    /\ ret.value = PyStr(<<"~", " ", "2", " ", "K", "B">>)

Loaders == {"load_json", "load_bin", "get_size"}

\* C7 as stated: load_json, load_bin and get_size on a path that does not
\* exist fail with NotFoundError, return nothing and leave the filesystem
\* as it was.
C7_MissingPathIsNotFoundError ==
    (call.op \in Loaders /\ ~Exists(pre, call.path)) =>
        /\ NotFoundError(ret.err)
        /\ ret.value = NoValue
        /\ fs = pre

\* a path above p is a file
FileAbove(f, p) == \E i \in 1..(Len(p) - 1) : Kind(f, SubSeq(p, 1, i)) = "file"

\* C7 amended: load_json, load_bin and get_size on a path that does not
\* exist return nothing and leave the filesystem as it was; they fail with
\* NotFoundError, unless a path above it is a file, and then with
\* NotADirectoryError.
C7_MissingPathFails ==
    (call.op \in Loaders /\ ~Exists(pre, call.path)) =>
        /\ IF FileAbove(pre, call.path)
           THEN ret.err.type = "NotADirectoryError"
           ELSE NotFoundError(ret.err)
        /\ ret.value = NoValue
        /\ fs = pre

\* load_bin was called on a path that is missing from an existing directory
C7_Witness ==
    /\ call.op = "load_bin"
    /\ Len(call.path) = 2
    /\ Kind(pre, Parent(call.path)) = "dir"
    /\ Kind(pre, call.path) = "none"
    /\ NotFoundError(ret.err)

\* C8 as stated: the error the caller of read_yaml receives is the error
\* that was detected inside the call, kind and message.
C8_ReraisedUnchanged ==
    (call.op = "read_yaml" /\ ret.detected # NoError) => ret.err = ret.detected

\* C8 amended: no error detected inside read_yaml is swallowed. A missing
\* file reaches the caller as a new FileNotFoundError with read_yaml's own
\* message, a BoxValueError as a ValueError that reports an invalid
\* structure, and every other error unchanged, kind and message.
C8_ReraisedOrTranslated ==
    (call.op = "read_yaml" /\ ret.detected # NoError) =>
        /\ ret.value = NoValue
        /\ CASE ret.detected.type = "FileNotFoundError" ->
                    /\ NotFoundError(ret.err)
                    /\ ret.err.msg = "YAML file not found."
             [] ret.detected.type = "BoxValueError" ->
                    /\ ret.err.type = "ValueError"
                    /\ ret.err.msg = "YAML file has an invalid structure."
             [] OTHER -> ret.err = ret.detected

\* read_yaml passed on a TypeError that the validation raised
C8_Witness ==
    /\ ParsedYamlCall
    /\ Document.t = "int"
    /\ ret.detected.type = "TypeError"
    /\ ret.err = ret.detected

\* C9: a save_json call either returns with the complete JSON document of
\* data stored at path, or fails and leaves the filesystem as it was.
C9_SaveJsonAtomic ==
    call.op = "save_json" =>
        \/ /\ ret.err = NoError
           /\ JsonDump(arg).ok
           /\ fs[call.path] = FileNode(Text(JsonDump(arg).toks))
        \/ /\ ret.err # NoError
           /\ fs = pre

\* the entries of the log that report a successful load
SuccessEntries == SelectSeq(log, LAMBDA e : e.msg = "YAML file loaded successfully")

\* C10: a read_yaml call that returns has logged 'loaded successfully'
\* exactly once, and a call that fails has not logged it.
C10_SuccessEntryOnlyOnSuccess ==
    call.op = "read_yaml" =>
        /\ ret.err = NoError => Len(SuccessEntries) = 1
        /\ ret.err # NoError => Len(SuccessEntries) = 0

====
